---- MODULE Spec2Model ----
(***************************************************************************)
(* Model of the process-pair test harness of AutoGrading.py:               *)
(*   - GradingFrame.run_tests, the runner thread (one step per statement   *)
(*     that reads or writes a shared handle, launches a process, or blocks)*)
(*   - GradingFrame.cleanup_current_processes, run by the runner thread     *)
(*     and by the GUI thread (End All Processes), one step per read of a   *)
(*     shared handle                                                       *)
(*   - GradingFrame.read_output, the two capturer threads of a case        *)
(*   - GradingFrame.get_diff and its normalizer, as operators on texts     *)
(*     (sequences of one-character strings)                                *)
(*   - the child processes, as the environment: they print lines, exit on  *)
(*     their own, and die when killed.                                     *)
(* A second state machine, SpecCompare, applies get_diff to pairs of files *)
(* drawn from the short texts over a five-character alphabet, the second   *)
(* file given or derived from the first; the harness stands still in it.   *)
(* A third one, SpecRecorder, is the recorder of TestCaseGenerator.py: the *)
(* handlers of InteractiveFrame, its process pairs and its capturers.      *)
(* Sleeps are not steps of their own: a thread sleeping before statement S *)
(* is a thread whose next step is S. A bounded join (timeout=5) returns    *)
(* when the thread has ended, or when it is blocked in readline on a live  *)
(* process; a capturer that can run is taken to finish within the timeout. *)
(* Variables nothing reads any more (the locals of a finished iteration,   *)
(* the pipe of a process nobody reads) are reset, to keep the state small. *)
(***************************************************************************)
EXTENDS Integers, Sequences, FiniteSets, TLC

\* ------------------------------------------------------------------ bounds
\* Number of test case folders the suite directory may hold.
NumCases == 2
\* Lines a child process prints during one case, at most.
MaxOut == 1
\* Scripted inputs of a manifest, at most.
MaxInputs == 2
\* Clicks on "End All Processes" during one suite run, at most.
MaxAborts == 1
\* Characters of the first file handed to get_diff, at most.
MaxText == 4
\* Characters of a second file that is not derived from the first, at most.
MaxOther == 2
\* Characters that blank lines add to a file, at most.
MaxBlank == 2
\* Process pairs the recorder starts, at most.
MaxStarts == 2
\* Inputs the recorder holds, at most.
MaxSubmits == 2

Cases == 1..NumCases
Roles == {"server", "client"}
\* A handle slot (self.current_*_process, self.current_*_thread) holds None
\* or the process/thread of its role that was created for a case; the slot's
\* role and the case number identify the object.
None == 0
Handles == 0..NumCases

\* ------------------------------------------------------------------ texts
\* A text is a sequence of one-character strings.
NL == "\n"
CR == "\r"
SP == " "

\* The literal that get_diff erases, abbreviated to three characters of the
\* same shape as the source's: it starts and ends with distinct non-blank
\* characters and holds a single blank inside.
prompt == <<"E", SP, ":">>

\* s[i..] starts with p
StartsAt(s, i, p) ==
    /\ i + Len(p) - 1 <= Len(s)
    /\ \A k \in 1..Len(p) : s[i + k - 1] = p[k]

\* str.replace(old, new): non-overlapping occurrences, left to right.
RECURSIVE ReplaceFrom(_, _, _, _)
ReplaceFrom(s, i, old, new) ==
    IF i > Len(s) THEN <<>>
    ELSE IF StartsAt(s, i, old)
         THEN new \o ReplaceFrom(s, i + Len(old), old, new)
         ELSE <<s[i]>> \o ReplaceFrom(s, i + 1, old, new)

Replace(s, old, new) == ReplaceFrom(s, 1, old, new)

\* str.split(sep) for a one-character sep: always at least one piece.
RECURSIVE SplitFrom(_, _, _, _)
SplitFrom(s, i, sep, acc) ==
    IF i > Len(s) THEN <<acc>>
    ELSE IF s[i] = sep
         THEN <<acc>> \o SplitFrom(s, i + 1, sep, <<>>)
         ELSE SplitFrom(s, i + 1, sep, Append(acc, s[i]))

Split(s, sep) == SplitFrom(s, 1, sep, <<>>)

IsSpace(ch) == ch \in {SP, "\t", NL, CR}

\* str.split() without argument: the maximal runs of non-whitespace.
RECURSIVE WordsFrom(_, _, _)
WordsFrom(s, i, acc) ==
    IF i > Len(s) THEN (IF acc = <<>> THEN <<>> ELSE <<acc>>)
    ELSE IF IsSpace(s[i])
         THEN (IF acc = <<>> THEN <<>> ELSE <<acc>>) \o WordsFrom(s, i + 1, <<>>)
         ELSE WordsFrom(s, i + 1, Append(acc, s[i]))

Words(s) == WordsFrom(s, 1, <<>>)

\* ' '.join(words)
RECURSIVE Join(_)
Join(ws) ==
    IF ws = <<>> THEN <<>>
    ELSE IF Len(ws) = 1 THEN ws[1]
    ELSE ws[1] \o <<SP>> \o Join(Tail(ws))

\* collapsed = ' '.join(line.split())
Collapse(line) == Join(Words(line))

\* the loop without its test: every collapsed line is kept
RECURSIVE KeepAll(_)
KeepAll(ls) ==
    IF ls = <<>> THEN <<>>
    ELSE <<Collapse(Head(ls))>> \o KeepAll(Tail(ls))

\* the loop of read_and_normalize: keep the non-empty collapsed lines
RECURSIVE KeepNonEmpty(_)
KeepNonEmpty(ls) ==
    IF ls = <<>> THEN <<>>
    ELSE LET c == Collapse(Head(ls))
         IN  (IF c # <<>> THEN <<c>> ELSE <<>>) \o KeepNonEmpty(Tail(ls))

\* while lines and lines[-1] == '': lines.pop()
RECURSIVE TrimTrailingEmpty(_)
TrimTrailingEmpty(ls) ==
    IF ls # <<>> /\ ls[Len(ls)] = <<>>
    THEN TrimTrailingEmpty(SubSeq(ls, 1, Len(ls) - 1))
    ELSE ls

\* the normalizer with '\r\n' replaced by '' : a CRLF joins two lines
read_and_normalize_joining(raw) ==
    LET r1 == Replace(Replace(raw, <<CR, NL>>, <<>>), <<CR>>, <<NL>>)
        r2 == Replace(r1, prompt, <<>>)
    IN  TrimTrailingEmpty(KeepNonEmpty(Split(r2, NL)))

\* read_and_normalize, applied to the text of the file
read_and_normalize(raw) ==
    LET r1 == Replace(Replace(raw, <<CR, NL>>, <<NL>>), <<CR>>, <<NL>>)
        r2 == Replace(r1, prompt, <<>>)
    IN  TrimTrailingEmpty(KeepNonEmpty(Split(r2, NL)))

\* what get_diff returns for None
NoDiff == <<>>

\* get_diff comparing the lines pairwise up to the shorter sequence
get_diff_zip(text1, text2, label) ==
    LET l1 == read_and_normalize(text1)
        l2 == read_and_normalize(text2)
    IN  IF Len(l1) <= Len(l2) /\ SubSeq(l2, 1, Len(l1)) = l1
        THEN NoDiff
        ELSE <<label>>

\* get_diff: None when the normalized line sequences are equal, otherwise a
\* report; the report is kept as its label (the diff text is not needed to
\* tell a report from None, and a report is never the empty string).
get_diff(text1, text2, label) ==
    IF read_and_normalize(text1) = read_and_normalize(text2)
    THEN NoDiff
    ELSE <<label>>

\* '\n'.join(lines)
RECURSIVE JoinLines(_)
JoinLines(ls) ==
    IF ls = <<>> THEN <<>>
    ELSE IF Len(ls) = 1 THEN ls[1]
    ELSE ls[1] \o <<NL>> \o JoinLines(Tail(ls))

\* The characters of the files get_diff is applied to: the non-blank
\* characters of the prompt, the blank, and the two line-ending characters.
Chars == {"E", ":", SP, NL, CR}
Texts(n) == UNION {[1..k -> Chars] : k \in 0..n}

\* The string get_diff returns is f"{label} mismatch:\n{diff_str[:2000]}".
\* LabelChars is the length of the labels run_tests passes ("Client",
\* "Server"), HeadChars the length of " mismatch:\n", MaxDiffChars the slice.
LabelChars == 6
HeadChars == 11
MaxDiffChars == 2000

\* len of the returned string, for a unified diff of diff_str_len characters
get_diff_chars(diff_str_len) ==
    LabelChars + HeadChars
    + (IF diff_str_len > MaxDiffChars THEN MaxDiffChars ELSE diff_str_len)

\* Lengths of ''.join(diff) for two transcripts that differ. The unified
\* diff holds every differing line and grows with the transcripts, which
\* are not bounded; the short texts of this model stand for transcripts of
\* any length, so the length of their diff is drawn from these values.
DiffLens == {40, 1983, 1984}

\* reason = '' ; if client_diff: reason += client_diff + '\n' ; same for
\* server_diff -- as lengths, 0 standing for None
reason_chars_of(client_chars, server_chars) ==
    (IF client_chars > 0 THEN client_chars + 1 ELSE 0)
    + (IF server_chars > 0 THEN server_chars + 1 ELSE 0)

\* str.rstrip('\n')
RECURSIVE RStripNL(_)
RStripNL(s) ==
    IF s # <<>> /\ s[Len(s)] = NL THEN RStripNL(SubSeq(s, 1, Len(s) - 1)) ELSE s

\* read_output: normalized_line = line.replace('\r\n', '\n').rstrip('\n') + '\n'
normalized_line(line) == RStripNL(Replace(line, <<CR, NL>>, <<NL>>)) \o <<NL>>


\* ------------------------------------------------------------------ manifests
\* The value of the manifest's points field, by JSON type; v is its integer
\* value where it has one.
PInt(n)    == [t |-> "int", v |-> n]
PNumStr(n) == [t |-> "numstr", v |-> n]
PBadStr    == [t |-> "badstr", v |-> 0]
PMissing   == [t |-> "missing", v |-> 0]
PNull      == [t |-> "null", v |-> 0]

\* int(points): the value, or the exception it raises
IntOf(p) ==
    CASE p.t = "int"    -> [raised |-> "no", v |-> p.v]
      [] p.t = "numstr" -> [raised |-> "no", v |-> p.v]
      [] p.t = "badstr" -> [raised |-> "ValueError", v |-> 0]
      [] OTHER          -> [raised |-> "TypeError", v |-> 0]

\* points = meta.get('points', '0'); try: int(points) except ValueError: 0
\* (a TypeError is not caught)
ParsePoints(p) ==
    LET q == IF p.t = "missing" THEN PNumStr(0) ELSE p
        r == IntOf(q)
    IN  IF r.raised = "ValueError" THEN [raised |-> "no", v |-> 0] ELSE r

InputLists == {[i \in 1..k |-> i] : k \in 0..MaxInputs}
\* What open + json.load of a meta.json can find in a suite folder: text that
\* does not parse, a top-level value that is no record (a list), or a record.
\* The folder "wellformed" holds only records worth 10 points; the folder
\* "mixed" holds any of them.
Manifests(folder) ==
    IF folder = "wellformed"
    THEN {[kind |-> "record", inputs |-> il, points |-> PNumStr(10)] :
             il \in InputLists}
    ELSE {[kind |-> k, inputs |-> <<>>, points |-> PMissing] :
             k \in {"garbage", "list"}}
         \cup {[kind |-> "record", inputs |-> il, points |-> p] :
                 il \in InputLists,
                 p \in {PInt(10), PNumStr(0 - 5), PBadStr, PNull}}

\* The line a student process prints (without the terminator), and the
\* golden transcript files of every case.
OutLines == {<<"o">>}
Golden == [client |-> <<"o", NL>>, server |-> <<"o", CR, NL>>]

\* The command lines of a suite run: the four arguments, and whether a dotnet
\* launcher is on the PATH.
Arg(ce, se, cd, sd, folder) ==
    [client_exists |-> ce, server_exists |-> se, client_dll |-> cd,
     server_dll |-> sd, test_cases_folder |-> folder]

SuiteConfigs ==
    {<<Arg(TRUE, TRUE, FALSE, FALSE, "mixed"), FALSE>>,
     <<Arg(TRUE, TRUE, TRUE, TRUE, "mixed"), TRUE>>,
     <<Arg(TRUE, TRUE, TRUE, FALSE, "mixed"), FALSE>>,
     <<Arg(TRUE, TRUE, FALSE, TRUE, "mixed"), FALSE>>,
     <<Arg(FALSE, TRUE, FALSE, FALSE, "mixed"), FALSE>>,
     <<Arg(TRUE, FALSE, FALSE, FALSE, "mixed"), FALSE>>,
     <<Arg(FALSE, FALSE, FALSE, FALSE, "mixed"), FALSE>>}

AbortConfigs == {<<Arg(TRUE, TRUE, FALSE, FALSE, "wellformed"), FALSE>>}

\* ------------------------------------------------------------------ state
VARIABLES
    args,            \* the parsed arguments of the run
    dotnet,          \* shutil.which('dotnet') finds a launcher
    rpc,             \* the runner thread's next statement (source line)
    rret,            \* where the runner resumes after cleanup_current_processes
    test_cases,      \* number of discovered cases; they are named 1..test_cases
    cur,             \* the case of the current loop iteration
    inputs, idx,     \* meta['inputs'] and the position of the feeding loop
    points_value, total_points, awarded_points,
    results,         \* the result rows, in order
    client_diff, server_diff,
    report,          \* the saved workbook: <<>> until wb.save, then <<rows>>
    cur_proc,        \* self.current_server_process / current_client_process
    cur_thr,         \* self.current_server_thread / current_client_thread
    cpc,             \* position inside cleanup_current_processes, per thread
    gpc, aborts,     \* the GUI thread: idle or in on_end_processes; clicks so far
    proc,            \* proc[role][c]: "none", "alive" or "dead"
    pipe,            \* pipe[role][c]: lines printed and not yet read
    emitted,         \* emitted[role][c]: lines printed so far
    thr,             \* thr[role][c]: [st, arg], the capturer thread of a case
    file,            \* file[role]: text of the student record in the temp dir
    tmp,             \* the temp dir of case cur exists
    sent,            \* the inputs the client of case cur received
    aborted,         \* history: cases during which End All Processes was clicked
    write_failed,    \* history: cases in which a write to the client's stdin failed
    start_failed,    \* history: cases whose process start failed, with the cause
    manifest_failed, \* history: cases whose meta.json did not load as a record
    worth,           \* history: points_value of every case loaded so far, in order
    file1, file2,    \* get_diff: the texts of the two files it is applied to
    relation,        \* how file2 was obtained from file1 ("given": it was not)
    returned,        \* <<>>, or what get_diff(file1, file2) and
                     \* get_diff(file2, file1) returned, and the length of
                     \* the former's string (0 for None)
    reason_chars,    \* length of the reason built from the returned diffs
    current_stage,   \* recorder: self.current_stage
    rec_inputs,      \* recorder: self.inputs
    client_process, server_process,  \* recorder: the two process handles
    outputs,         \* recorder: the pair whose start created the lists
                     \* self.client_output and self.server_output
    pair,            \* recorder: pair[g][role]: "none", "alive" or "dead"
    captured,        \* recorder: captured[g][role]: lines in the output list
    fed,             \* history: fed[g]: the inputs written to the client of g
    starts,          \* recorder: process pairs started so far
    hpc,             \* recorder: the GUI thread's position in a handler
    closed,          \* recorder: self.Close() was called
    lock,            \* recorder: holder of _file_write_lock, or "free"
    unlocked,        \* history: the files written by a thread not holding it
    record_files,    \* recorder: <<>>, or what the record files were written from
    meta_json,       \* recorder: <<>>, or the manifest written
    last             \* history: the last handler that completed, and how

config     == <<args, dotnet>>
caseLocals == <<inputs, idx, points_value, client_diff, server_diff, sent>>
suiteLocals == <<test_cases, cur, total_points, awarded_points, results, report>>
locals     == <<caseLocals, suiteLocals>>
handles    == <<cur_proc, cur_thr>>
children   == <<proc, pipe, emitted>>
history    == <<aborted, write_failed, start_failed, manifest_failed, worth>>
harness == <<config, rpc, rret, locals, handles, cpc, gpc, aborts, children,
             thr, file, tmp, history>>
comparison == <<file1, file2, relation, returned, reason_chars>>
recorder == <<current_stage, rec_inputs, client_process, server_process,
              outputs, pair, captured, fed, starts, hpc, closed, lock, unlocked,
              record_files, meta_json, last>>
vars == <<harness, comparison, recorder>>

Threads == {"runner", "gui"}
NoFiles == [r \in Roles |-> <<>>]

Start(configs) ==
    /\ \E cfg \in configs : args = cfg[1] /\ dotnet = cfg[2]
    /\ rpc = "L131" /\ rret = "L131"
    /\ test_cases = 0 /\ cur = 0
    /\ inputs = <<>> /\ idx = 1
    /\ points_value = 0 /\ total_points = 0 /\ awarded_points = 0
    /\ results = <<>>
    /\ client_diff = NoDiff /\ server_diff = NoDiff
    /\ report = <<>>
    /\ cur_proc = [r \in Roles |-> None]
    /\ cur_thr = [r \in Roles |-> None]
    /\ cpc = [t \in Threads |-> "idle"]
    /\ gpc = "idle" /\ aborts = 0
    /\ proc = [r \in Roles |-> [c \in Cases |-> "none"]]
    /\ pipe = [r \in Roles |-> [c \in Cases |-> <<>>]]
    /\ emitted = [r \in Roles |-> [c \in Cases |-> 0]]
    /\ thr = [r \in Roles |-> [c \in Cases |-> [st |-> "none", arg |-> None]]]
    /\ file = NoFiles
    /\ tmp = FALSE
    /\ sent = <<>>
    /\ aborted = {} /\ write_failed = {} /\ start_failed = {}
    /\ manifest_failed = {} /\ worth = <<>>

\* get_diff is applied to nothing
NoComparison ==
    /\ file1 = <<>> /\ file2 = <<>>
    /\ relation = "none"
    /\ returned = <<>>
    /\ reason_chars = 0

\* InteractiveFrame after the assignments of __init__, before setup_folders
NewRecorder ==
    /\ current_stage = 1
    /\ rec_inputs = <<>>
    /\ client_process = None /\ server_process = None
    /\ outputs = None
    /\ pair = [g \in 1..MaxStarts |-> [client |-> "none", server |-> "none"]]
    /\ captured = [g \in 1..MaxStarts |-> [client |-> 0, server |-> 0]]
    /\ fed = [g \in 1..MaxStarts |-> <<>>]
    /\ starts = 0
    /\ closed = FALSE
    /\ lock = "free"
    /\ unlocked = {}
    /\ record_files = <<>>
    /\ meta_json = <<>>
    /\ last = [handler |-> "none", outcome |-> "none"]

\* the recorder is another program: no InteractiveFrame is constructed
NoRecorder == NewRecorder /\ hpc = "none"

Init == Start(SuiteConfigs) /\ NoComparison /\ NoRecorder
InitAbort == Start(AbortConfigs) /\ NoComparison /\ NoRecorder

\* ------------------------------------------------------------------ helpers
\* _build_command_for_path: None when the path is a .dll and no dotnet
\* launcher is found, otherwise a command.
build_command_for_path(is_dll) ==
    IF is_dll THEN (IF ~dotnet THEN "None" ELSE "dotnet_cmd") ELSE "path_cmd"

\* the guard with "and" for "or": returns only when both artifacts are missing
ArtifactMissingBoth == ~args.client_exists /\ ~args.server_exists

\* the guard of the early return at the top of run_tests
ArtifactMissing == ~args.client_exists \/ ~args.server_exists

Row(c, status, pts, reason) ==
    [test_case |-> c, status |-> status, points |-> pts, reason |-> reason]

\* the scoring branch with "or" for "and": one matching transcript passes
ScoreRowOr(c, cd, sd, pv) ==
    IF cd = NoDiff \/ sd = NoDiff
    THEN Row(c, "Passed", pv, <<"Outputs match">>)
    ELSE Row(c, "Failed", 0, cd \o sd)

\* the row the scoring branch appends for the diffs cd and sd
ScoreRow(c, cd, sd, pv) ==
    IF cd = NoDiff /\ sd = NoDiff
    THEN Row(c, "Passed", pv, <<"Outputs match">>)
    ELSE Row(c, "Failed", 0, cd \o sd)

\* the award counted twice
AwardTwice(awarded, pv) == awarded + pv + pv

\* awarded_points += points_value
Award(awarded, pv) == awarded + pv

\* the locals of an iteration that is over
DropCaseLocals ==
    /\ inputs' = <<>> /\ idx' = 1 /\ points_value' = 0
    /\ client_diff' = NoDiff /\ server_diff' = NoDiff
    /\ sent' = <<>>

\* leaving the with block removes the temp dir and the student records
LeaveTemp ==
    /\ tmp' = FALSE
    /\ file' = NoFiles

\* an uncaught exception ends the runner thread
RunnerCrash ==
    /\ rpc' = "crashed"
    /\ LeaveTemp
    /\ DropCaseLocals

RunnerGoto(l) ==
    /\ rpc' = l
    /\ UNCHANGED <<tmp, file, caseLocals>>

\* the runner is between the server launch and the end of the capturer joins
MidCase ==
    \/ rpc \in {"L200", "L215", "L216", "L217", "L218", "L219", "L220", "L224",
                "L235", "L237", "L238", "L240", "L242", "L243"}
    \/ rpc = "cleanup" /\ rret = "L235"

\* a capturer thread that has ended (or was never made)
Ended(role, c) == thr[role][c].st \in {"none", "done"}

\* a capturer thread waiting in readline for a live process to print
Blocked(role, c) ==
    /\ thr[role][c].st = "running"
    /\ thr[role][c].arg # None
    /\ pipe[role][thr[role][c].arg] = <<>>
    /\ proc[role][thr[role][c].arg] = "alive"


\* ------------------------------------------------------------------ runner
\* if not os.path.exists(client) or not os.path.exists(server): return
L131 ==
    /\ rpc = "L131"
    /\ RunnerGoto(IF ArtifactMissing THEN "returned" ELSE "L136")
    /\ UNCHANGED <<config, rret, suiteLocals, handles, cpc, gpc, aborts,
                   children, thr, history>>

\* discovery: the folders that hold a manifest and both golden transcripts
L136 ==
    /\ rpc = "L136"
    /\ \E n \in 0..NumCases :
          /\ test_cases' = n
          /\ IF n = 0 THEN RunnerGoto("returned") /\ cur' = cur
                      ELSE RunnerGoto("L162") /\ cur' = 1
    /\ UNCHANGED <<config, rret, total_points, awarded_points, results, report,
                   handles, cpc, gpc, aborts, children, thr, history>>

\* a call of self.cleanup_current_processes() by the runner, resuming at ret
RunnerCall(at, ret) ==
    /\ rpc = at
    /\ rpc' = "cleanup"
    /\ rret' = ret
    /\ cpc' = [cpc EXCEPT !["runner"] = "c74"]

\* for test_case in test_cases: self.cleanup_current_processes()
L162 ==
    /\ RunnerCall("L162", "L166")
    /\ UNCHANGED <<config, locals, handles, gpc, aborts, children, thr, file,
                   tmp, history>>

\* json.load, meta.get('inputs'), meta.get('points'), int(points), total_points
L166 ==
    /\ rpc = "L166"
    /\ \E meta \in Manifests(args.test_cases_folder) :
          LET pv == ParsePoints(meta.points) IN
          IF meta.kind # "record" \/ pv.raised # "no"
          THEN /\ RunnerCrash
               /\ manifest_failed' = IF meta.kind # "record"
                                     THEN manifest_failed \cup {cur}
                                     ELSE manifest_failed
               /\ UNCHANGED <<total_points, worth>>
          ELSE /\ rpc' = "L179"
               /\ inputs' = meta.inputs
               /\ idx' = 1
               /\ points_value' = pv.v
               /\ total_points' = total_points + pv.v
               /\ worth' = Append(worth, pv.v)
               /\ UNCHANGED <<tmp, file, client_diff, server_diff, sent,
                              manifest_failed>>
    /\ UNCHANGED <<config, rret, test_cases, cur, awarded_points, results,
                   report, handles, cpc, gpc, aborts, children, thr, aborted,
                   write_failed, start_failed>>

\* with TemporaryDirectory(): create both student record files, empty
L179 ==
    /\ rpc = "L179"
    /\ rpc' = "L184"
    /\ tmp' = TRUE
    /\ file' = NoFiles
    /\ UNCHANGED <<config, rret, locals, handles, cpc, gpc, aborts, children,
                   thr, history>>

\* client_cmd, server_cmd; a missing launcher records the row and breaks
L184 ==
    /\ rpc = "L184"
    /\ IF build_command_for_path(args.client_dll) = "None"
          \/ build_command_for_path(args.server_dll) = "None"
       THEN /\ results' = Append(results,
                   Row(cur, "Failed to start", 0, <<"dotnet not available for DLL">>))
            /\ start_failed' = start_failed \cup {<<cur, "launcher">>}
            /\ rpc' = "L263"
            /\ LeaveTemp
            /\ DropCaseLocals
       ELSE /\ RunnerGoto("L190")
            /\ UNCHANGED <<results, start_failed>>
    /\ UNCHANGED <<config, rret, test_cases, cur, total_points, awarded_points,
                   report, handles, cpc, gpc, aborts, children, thr, aborted,
                   write_failed, manifest_failed, worth>>

\* self.current_<role>_process = subprocess.Popen(...): the process starts,
\* or Popen raises and the except branch at line 209 takes over
Popen(at, role, next) ==
    /\ rpc = at
    /\ \E ok \in BOOLEAN :
          IF ok
          THEN /\ cur_proc' = [cur_proc EXCEPT ![role] = cur]
               /\ proc' = [proc EXCEPT ![role][cur] = "alive"]
               /\ rpc' = next
               /\ UNCHANGED start_failed
          ELSE /\ rpc' = "L211"
               /\ start_failed' = start_failed \cup {<<cur, role>>}
               /\ UNCHANGED <<cur_proc, proc>>
    /\ UNCHANGED <<config, rret, locals, cur_thr, cpc, gpc, aborts, pipe,
                   emitted, thr, file, tmp, aborted, write_failed,
                   manifest_failed, worth>>

L190 == Popen("L190", "server", "L200")
L200 == Popen("L200", "client", "L215")

\* except Exception: results.append(Failed to start); cleanup; continue
L211 ==
    /\ RunnerCall("L211", "next_case")
    /\ results' = Append(results, Row(cur, "Failed to start", 0, <<"spawn error">>))
    /\ UNCHANGED <<config, caseLocals, test_cases, cur, total_points,
                   awarded_points, report, handles, gpc, aborts, children, thr,
                   file, tmp, history>>

\* self.current_<role>_thread = Thread(target=read_output,
\*                                     args=(self.current_<role>_process, file))
MakeThread(at, role, next) ==
    /\ rpc = at
    /\ rpc' = next
    /\ thr' = [thr EXCEPT ![role][cur] = [st |-> "created", arg |-> cur_proc[role]]]
    /\ cur_thr' = [cur_thr EXCEPT ![role] = cur]
    /\ UNCHANGED <<config, rret, locals, cur_proc, cpc, gpc, aborts, children,
                   file, tmp, history>>

L215 == MakeThread("L215", "server", "L216")
L216 == MakeThread("L216", "client", "L217")

\* self.current_<role>_thread.daemon = True: AttributeError on None
SetDaemon(at, role, next) ==
    /\ rpc = at
    /\ IF cur_thr[role] = None THEN RunnerCrash ELSE RunnerGoto(next)
    /\ UNCHANGED <<config, rret, suiteLocals, handles, cpc, gpc, aborts,
                   children, thr, history>>

L217 == SetDaemon("L217", "server", "L218")
L218 == SetDaemon("L218", "client", "L219")

\* the statement without its effect: the thread is never started
SkipStart(at, role, next) ==
    /\ rpc = at
    /\ RunnerGoto(next)
    /\ UNCHANGED <<config, rret, suiteLocals, handles, cpc, gpc, aborts,
                   children, thr, history>>

\* self.current_<role>_thread.start()
StartThread(at, role, next) ==
    /\ rpc = at
    /\ IF cur_thr[role] = None
       THEN RunnerCrash /\ UNCHANGED thr
       ELSE /\ RunnerGoto(next)
            /\ thr' = [thr EXCEPT ![role][cur_thr[role]].st = "running"]
    /\ UNCHANGED <<config, rret, suiteLocals, handles, cpc, gpc, aborts,
                   children, history>>

L219 == StartThread("L219", "server", "L220")
L220 == StartThread("L220", "client", "L224")

\* the feeding loop walking the inputs from the last to the first
L224Reversed ==
    /\ rpc = "L224"
    /\ IF idx > Len(inputs)
       THEN /\ rpc' = "L235"
            /\ UNCHANGED <<rret, cpc, idx, sent, write_failed>>
       ELSE IF cur_proc.client # None /\ proc.client[cur_proc.client] = "alive"
       THEN /\ sent' = Append(sent, inputs[Len(inputs) + 1 - idx])
            /\ idx' = idx + 1
            /\ UNCHANGED <<rpc, rret, cpc, write_failed>>
       ELSE /\ rpc' = "cleanup"
            /\ rret' = "L235"
            /\ cpc' = [cpc EXCEPT !["runner"] = "c74"]
            /\ write_failed' = write_failed \cup {cur}
            /\ UNCHANGED <<idx, sent>>
    /\ UNCHANGED <<config, suiteLocals, inputs, points_value, client_diff,
                   server_diff, handles, gpc, aborts, children, thr, file, tmp,
                   aborted, start_failed, manifest_failed, worth>>

\* for value in inputs: stdin.write(value + '\n'); flush -- or, on any
\* exception (None handle, closed pipe): cleanup_current_processes(); break
L224 ==
    /\ rpc = "L224"
    /\ IF idx > Len(inputs)
       THEN /\ rpc' = "L235"
            /\ UNCHANGED <<rret, cpc, idx, sent, write_failed>>
       ELSE IF cur_proc.client # None /\ proc.client[cur_proc.client] = "alive"
       THEN /\ sent' = Append(sent, inputs[idx])
            /\ idx' = idx + 1
            /\ UNCHANGED <<rpc, rret, cpc, write_failed>>
       ELSE /\ rpc' = "cleanup"
            /\ rret' = "L235"
            /\ cpc' = [cpc EXCEPT !["runner"] = "c74"]
            /\ write_failed' = write_failed \cup {cur}
            /\ UNCHANGED <<idx, sent>>
    /\ UNCHANGED <<config, suiteLocals, inputs, points_value, client_diff,
                   server_diff, handles, gpc, aborts, children, thr, file, tmp,
                   aborted, start_failed, manifest_failed, worth>>

\* if self.current_<role>_process.poll() is None: (AttributeError on None)
DrainPoll(at, role, term, next) ==
    /\ rpc = at
    /\ IF cur_proc[role] = None
       THEN RunnerCrash
       ELSE RunnerGoto(IF proc[role][cur_proc[role]] = "alive" THEN term ELSE next)
    /\ UNCHANGED <<config, rret, suiteLocals, handles, cpc, gpc, aborts,
                   children, thr, history>>

\* self.current_<role>_process.terminate(): a request the process may ignore
DrainTerminate(at, role, next) ==
    /\ rpc = at
    /\ IF cur_proc[role] = None THEN RunnerCrash ELSE RunnerGoto(next)
    /\ UNCHANGED <<config, rret, suiteLocals, handles, cpc, gpc, aborts,
                   children, thr, history>>

L235 == DrainPoll("L235", "client", "L237", "L238")
L237 == DrainTerminate("L237", "client", "L238")
L238 == DrainPoll("L238", "server", "L240", "L242")
L240 == DrainTerminate("L240", "server", "L242")

\* self.current_<role>_thread.join(timeout=5)
RunnerJoin(at, role, next) ==
    /\ rpc = at
    /\ IF cur_thr[role] = None
       THEN RunnerCrash
       ELSE /\ Ended(role, cur_thr[role]) \/ Blocked(role, cur_thr[role])
            /\ RunnerGoto(next)
    /\ UNCHANGED <<config, rret, suiteLocals, handles, cpc, gpc, aborts,
                   children, thr, history>>

L242 == RunnerJoin("L242", "client", "L243")
L243 == RunnerJoin("L243", "server", "L245")

\* client_diff = self.get_diff(golden client record, student client record)
L245 ==
    /\ rpc = "L245"
    /\ rpc' = "L246"
    /\ client_diff' = get_diff(Golden.client, file.client, "Client mismatch")
    /\ UNCHANGED <<config, rret, suiteLocals, inputs, idx, points_value,
                   server_diff, sent, handles, cpc, gpc, aborts, children, thr,
                   file, tmp, history>>

L246 ==
    /\ rpc = "L246"
    /\ rpc' = "L248"
    /\ server_diff' = get_diff(Golden.server, file.server, "Server mismatch")
    /\ UNCHANGED <<config, rret, suiteLocals, inputs, idx, points_value,
                   client_diff, sent, handles, cpc, gpc, aborts, children, thr,
                   file, tmp, history>>

\* if not client_diff and not server_diff: award, Passed; else Failed, 0
L248 ==
    /\ rpc = "L248"
    /\ rpc' = "L261"
    /\ LET row == ScoreRow(cur, client_diff, server_diff, points_value) IN
          /\ results' = Append(results, row)
          /\ awarded_points' = IF row.status = "Passed"
                                THEN Award(awarded_points, points_value)
                                ELSE awarded_points
    /\ UNCHANGED <<config, rret, caseLocals, test_cases, cur, total_points,
                   report, handles, cpc, gpc, aborts, children, thr, file, tmp,
                   history>>

\* self.cleanup_current_processes() at the end of the iteration
L261 ==
    /\ RunnerCall("L261", "next_case")
    /\ UNCHANGED <<config, locals, handles, gpc, aborts, children, thr, file,
                   tmp, history>>

\* leave the with block; the next iteration, or the end of the loop
NextCase ==
    /\ rpc = "next_case"
    /\ LeaveTemp
    /\ DropCaseLocals
    /\ IF cur < test_cases
       THEN rpc' = "L162" /\ cur' = cur + 1
       ELSE rpc' = "L263" /\ cur' = cur
    /\ UNCHANGED <<config, rret, test_cases, total_points, awarded_points,
                   results, report, handles, cpc, gpc, aborts, children, thr,
                   history>>

\* the totals line, the workbook with one row per result, wb.save
L263 ==
    /\ rpc = "L263"
    /\ rpc' = "done"
    /\ report' = <<[rows |-> results, awarded |-> awarded_points,
                    total |-> total_points]>>
    /\ UNCHANGED <<config, rret, caseLocals, test_cases, cur, total_points,
                   awarded_points, results, handles, cpc, gpc, aborts, children,
                   thr, file, tmp, history>>

\* ------------------------------------------------------------------ cleanup
\* cleanup_current_processes, run by thread t. Every evaluation of
\* self.current_* is a read of its own, so another thread may set the slot
\* to None between the test of a slot and the call on it.
CGoto(t, l) ==
    /\ cpc' = [cpc EXCEPT ![t] = l]
    /\ UNCHANGED <<rpc, gpc, tmp, file, caseLocals>>

\* AttributeError (or RuntimeError) inside cleanup: nothing catches it. In the
\* runner it ends the thread; in the GUI thread it ends the event handler.
CRaise(t) ==
    /\ cpc' = [cpc EXCEPT ![t] = "idle"]
    /\ IF t = "runner"
       THEN RunnerCrash /\ UNCHANGED gpc
       ELSE gpc' = "idle" /\ UNCHANGED <<rpc, tmp, file, caseLocals>>

CReturn(t) ==
    /\ cpc' = [cpc EXCEPT ![t] = "idle"]
    /\ IF t = "runner"
       THEN rpc' = rret /\ UNCHANGED <<gpc, tmp, file, caseLocals>>
       ELSE gpc' = "idle" /\ UNCHANGED <<rpc, tmp, file, caseLocals>>

\* if self.current_<role>_process and ...      (first operand)
CleanupTest(t, at, role, poll, skip) ==
    /\ cpc[t] = at
    /\ CGoto(t, IF cur_proc[role] = None THEN skip ELSE poll)
    /\ UNCHANGED <<config, rret, suiteLocals, handles, aborts, children, thr,
                   history>>

\* ... and self.current_<role>_process.poll() is None:   (second operand)
CleanupPoll(t, at, role, term, skip) ==
    /\ cpc[t] = at
    /\ IF cur_proc[role] = None
       THEN CRaise(t)
       ELSE CGoto(t, IF proc[role][cur_proc[role]] = "alive" THEN term ELSE skip)
    /\ UNCHANGED <<config, rret, suiteLocals, handles, aborts, children, thr,
                   history>>

\* self.current_<role>_process.terminate()
CleanupTerminate(t, at, role, next) ==
    /\ cpc[t] = at
    /\ IF cur_proc[role] = None THEN CRaise(t) ELSE CGoto(t, next)
    /\ UNCHANGED <<config, rret, suiteLocals, handles, aborts, children, thr,
                   history>>

\* self.current_<role>_process.wait(timeout=3): returns once the process has
\* exited, raises TimeoutExpired while it is still alive
CleanupWait(t, at, role, kill, next) ==
    /\ cpc[t] = at
    /\ IF cur_proc[role] = None
       THEN CRaise(t)
       ELSE CGoto(t, IF proc[role][cur_proc[role]] = "alive" THEN kill ELSE next)
    /\ UNCHANGED <<config, rret, suiteLocals, handles, aborts, children, thr,
                   history>>

\* the except branch without the kill
CleanupPass(t, at, role, next) ==
    /\ cpc[t] = at
    /\ IF cur_proc[role] = None
       THEN CRaise(t)
       ELSE CGoto(t, next)
    /\ UNCHANGED <<config, rret, suiteLocals, handles, aborts, children, thr,
                   history>>

\* except TimeoutExpired: self.current_<role>_process.kill()
CleanupKill(t, at, role, next) ==
    /\ cpc[t] = at
    /\ IF cur_proc[role] = None
       THEN CRaise(t) /\ UNCHANGED <<proc, emitted>>
       ELSE /\ CGoto(t, next)
            /\ proc' = [proc EXCEPT ![role][cur_proc[role]] = "dead"]
            /\ emitted' = [emitted EXCEPT ![role][cur_proc[role]] = 0]
    /\ UNCHANGED <<config, rret, suiteLocals, handles, aborts, pipe, thr,
                   history>>

\* if self.current_<role>_thread:
CleanupThreadTest(t, at, role, join, skip) ==
    /\ cpc[t] = at
    /\ CGoto(t, IF cur_thr[role] = None THEN skip ELSE join)
    /\ UNCHANGED <<config, rret, suiteLocals, handles, aborts, children, thr,
                   history>>

\* self.current_<role>_thread.join(timeout=5): AttributeError on None,
\* RuntimeError on a thread that was not started yet
CleanupJoin(t, at, role, next) ==
    /\ cpc[t] = at
    /\ IF cur_thr[role] = None \/ thr[role][cur_thr[role]].st = "created"
       THEN CRaise(t)
       ELSE /\ Ended(role, cur_thr[role]) \/ Blocked(role, cur_thr[role])
            /\ CGoto(t, next)
    /\ UNCHANGED <<config, rret, suiteLocals, handles, aborts, children, thr,
                   history>>

\* self.current_<role>_process = None
CleanupClearProc(t, at, role, next) ==
    /\ cpc[t] = at
    /\ CGoto(t, next)
    /\ cur_proc' = [cur_proc EXCEPT ![role] = None]
    /\ UNCHANGED <<config, rret, suiteLocals, cur_thr, aborts, children, thr,
                   history>>

\* self.current_client_thread = None
CleanupClearClientThread(t) ==
    /\ cpc[t] = "c92"
    /\ CGoto(t, "c93")
    /\ cur_thr' = [cur_thr EXCEPT !["client"] = None]
    /\ UNCHANGED <<config, rret, suiteLocals, cur_proc, aborts, children, thr,
                   history>>

\* self.current_server_thread = None, and the return
CleanupClearServerThread(t) ==
    /\ cpc[t] = "c93"
    /\ CReturn(t)
    /\ cur_thr' = [cur_thr EXCEPT !["server"] = None]
    /\ UNCHANGED <<config, rret, suiteLocals, cur_proc, aborts, children, thr,
                   history>>

C74(t)  == CleanupTest(t, "c74", "client", "c74p", "c80")
C74p(t) == CleanupPoll(t, "c74p", "client", "c75", "c80")
C75(t)  == CleanupTerminate(t, "c75", "client", "c77")
C77(t)  == CleanupWait(t, "c77", "client", "c79", "c80")
C79(t)  == CleanupKill(t, "c79", "client", "c80")
C80(t)  == CleanupTest(t, "c80", "server", "c80p", "c86")
C80p(t) == CleanupPoll(t, "c80p", "server", "c81", "c86")
C81(t)  == CleanupTerminate(t, "c81", "server", "c83")
C83(t)  == CleanupWait(t, "c83", "server", "c85", "c86")
C85(t)  == CleanupKill(t, "c85", "server", "c86")
C86(t)  == CleanupThreadTest(t, "c86", "client", "c87", "c88")
C87(t)  == CleanupJoin(t, "c87", "client", "c88")
C88(t)  == CleanupThreadTest(t, "c88", "server", "c89", "c90")
C89(t)  == CleanupJoin(t, "c89", "server", "c90")
C90(t)  == CleanupClearProc(t, "c90", "client", "c91")
C91(t)  == CleanupClearProc(t, "c91", "server", "c92")
C92(t)  == CleanupClearClientThread(t)
C93(t)  == CleanupClearServerThread(t)

cleanup_current_processes(t) ==
    \/ C74(t) \/ C74p(t) \/ C75(t) \/ C77(t) \/ C79(t)
    \/ C80(t) \/ C80p(t) \/ C81(t) \/ C83(t) \/ C85(t)
    \/ C86(t) \/ C87(t) \/ C88(t) \/ C89(t)
    \/ C90(t) \/ C91(t) \/ C92(t) \/ C93(t)

\* ------------------------------------------------------------------ GUI
\* on_end_processes: the button handler enters cleanup_current_processes
on_end_processes ==
    /\ gpc = "idle"
    /\ aborts < MaxAborts
    /\ gpc' = "cleanup"
    /\ aborts' = aborts + 1
    /\ cpc' = [cpc EXCEPT !["gui"] = "c74"]
    /\ aborted' = IF MidCase THEN aborted \cup {cur} ELSE aborted
    /\ UNCHANGED <<config, rpc, rret, locals, handles, children, thr, file, tmp,
                   write_failed, start_failed, manifest_failed, worth>>

\* ------------------------------------------------------------------ children
\* a student process prints a line
ProcPrint(role, c) ==
    /\ proc[role][c] = "alive"
    /\ emitted[role][c] < MaxOut
    /\ \E line \in OutLines :
          pipe' = [pipe EXCEPT ![role][c] = Append(@, line \o <<NL>>)]
    /\ emitted' = [emitted EXCEPT ![role][c] = @ + 1]
    /\ UNCHANGED <<config, rpc, rret, locals, handles, cpc, gpc, aborts, proc,
                   thr, file, tmp, history>>

\* a student process exits: on its own, or because it honours terminate()
ProcExit(role, c) ==
    /\ proc[role][c] = "alive"
    /\ proc' = [proc EXCEPT ![role][c] = "dead"]
    /\ emitted' = [emitted EXCEPT ![role][c] = 0]
    /\ UNCHANGED <<config, rpc, rret, locals, handles, cpc, gpc, aborts, pipe,
                   thr, file, tmp, history>>

\* ------------------------------------------------------------------ capturer
\* the capturer emptying its record file when the stream ends
read_output_truncating(role, c) ==
    /\ thr[role][c].st = "running"
    /\ LET p == thr[role][c].arg
           ends == [thr EXCEPT ![role][c] = [st |-> "done", arg |-> None]]
       IN  IF p = None
           THEN thr' = ends /\ UNCHANGED <<pipe, file>>
           ELSE IF pipe[role][p] # <<>>
           THEN IF tmp /\ cur = c
                THEN /\ file' = [file EXCEPT ![role] =
                                    @ \o normalized_line(Head(pipe[role][p]))]
                     /\ pipe' = [pipe EXCEPT ![role][p] = Tail(@)]
                     /\ UNCHANGED thr
                ELSE /\ thr' = ends
                     /\ pipe' = [pipe EXCEPT ![role][p] = <<>>]
                     /\ UNCHANGED file
           ELSE /\ proc[role][p] # "alive"
                /\ thr' = ends
                /\ file' = [file EXCEPT ![role] = <<>>]
                /\ UNCHANGED pipe
    /\ UNCHANGED <<config, rpc, rret, locals, handles, cpc, gpc, aborts, proc,
                   emitted, tmp, history>>

\* read_output, one iteration: readline, then the append under the lock.
\* Any exception (process is None, the record file's folder is gone) and the
\* end of the stream end the thread; what is left in its pipe is never read.
read_output(role, c) ==
    /\ thr[role][c].st = "running"
    /\ LET p == thr[role][c].arg
           ends == [thr EXCEPT ![role][c] = [st |-> "done", arg |-> None]]
       IN  IF p = None
           THEN thr' = ends /\ UNCHANGED <<pipe, file>>
           ELSE IF pipe[role][p] # <<>>
           THEN IF tmp /\ cur = c
                THEN /\ file' = [file EXCEPT ![role] =
                                    @ \o normalized_line(Head(pipe[role][p]))]
                     /\ pipe' = [pipe EXCEPT ![role][p] = Tail(@)]
                     /\ UNCHANGED thr
                ELSE /\ thr' = ends
                     /\ pipe' = [pipe EXCEPT ![role][p] = <<>>]
                     /\ UNCHANGED file
           ELSE /\ proc[role][p] # "alive"
                /\ thr' = ends
                /\ UNCHANGED <<pipe, file>>
    /\ UNCHANGED <<config, rpc, rret, locals, handles, cpc, gpc, aborts, proc,
                   emitted, tmp, history>>

\* ------------------------------------------------------------------ comparison
\* The files get_diff reads. file1 is any short text; file2 is any shorter
\* text, or is written from file1 by one of the steps below before get_diff
\* is called.
Fresh == relation = "given" /\ returned = <<>>

Derive(text, how) ==
    /\ file2' = text
    /\ relation' = how
    /\ UNCHANGED <<harness, file1, returned, reason_chars>>

\* file2 is file1 itself
SameFile == Fresh /\ Derive(file1, "same")

\* file2 holds the lines of the normalized file1, joined by newlines
Renormalized ==
    Fresh /\ Derive(JoinLines(read_and_normalize(file1)), "renormalized")

\* the LF terminators of s: every "\n" that does not follow a "\r"
LFs(s) == {i \in 1..Len(s) : s[i] = NL /\ (i = 1 \/ s[i - 1] # CR)}

\* s with a "\r" put before the characters at the positions in K
RECURSIVE WithCR(_, _, _)
WithCR(s, K, i) ==
    IF i > Len(s) THEN <<>>
    ELSE (IF i \in K THEN <<CR>> ELSE <<>>) \o <<s[i]>> \o WithCR(s, K, i + 1)

\* file2 is file1 with some of its LF terminators written as CRLF
CRLFTerminated ==
    /\ Fresh
    /\ \E K \in SUBSET LFs(file1) :
          K # {} /\ Derive(WithCR(file1, K, 1), "crlf")

\* the positions where a line of s starts, the end of a terminated s included
LineStarts(s) == {k \in 1..(Len(s) + 1) : k = 1 \/ s[k - 1] = NL}

InsertAt(s, k, x) == SubSeq(s, 1, k - 1) \o x \o SubSeq(s, k, Len(s))

\* file2 is file1 with extra empty lines: one more is put at a line start,
\* or after the last line when that line has no terminator
BlankLineAdded ==
    /\ returned = <<>>
    /\ relation \in {"given", "blank"}
    /\ LET base == IF relation = "given" THEN file1 ELSE file2 IN
          /\ Len(base) - Len(file1) < MaxBlank
          /\ \/ \E k \in LineStarts(base) :
                   Derive(InsertAt(base, k, <<NL>>), "blank")
             \/ /\ base # <<>> /\ base[Len(base)] # NL
                /\ Derive(base \o <<NL, NL>>, "blank")

\* get_diff(file1, file2, label) and get_diff(file2, file1, label)
Compare ==
    /\ relation # "none"
    /\ returned = <<>>
    /\ LET fwd == get_diff(file1, file2, "Client")
           rev == get_diff(file2, file1, "Client")
       IN  \E n \in DiffLens :
             returned' = [fwd |-> fwd, rev |-> rev,
                          chars |-> IF fwd = NoDiff THEN 0
                                    ELSE get_diff_chars(n)]
    /\ UNCHANGED <<harness, file1, file2, relation, reason_chars>>

\* the else branch of the scoring: the reason, with what get_diff returned
\* for the client records and any return value for the server records
BuildReason ==
    /\ returned # <<>>
    /\ reason_chars = 0
    /\ \E server_chars \in {0} \cup {get_diff_chars(n) : n \in DiffLens} :
          /\ returned.chars > 0 \/ server_chars > 0
          /\ reason_chars' = reason_chars_of(returned.chars, server_chars)
    /\ UNCHANGED <<harness, file1, file2, relation, returned>>

\* ------------------------------------------------------------------ recorder
\* InteractiveFrame of TestCaseGenerator.py. Its handlers run one at a time
\* on the GUI thread; the student processes and the two capturer threads run
\* beside them. A handle is None or the number of the process pair that
\* start_processes launched; the output lists are those that the same call
\* of start_processes created.
Pairs == 1..MaxStarts

\* what the input field can hold after strip(): nothing, or a value
Values == {"", "a", "b"}

RecorderRunning ==
    /\ client_process # None /\ pair[client_process].client = "alive"
    /\ server_process # None /\ pair[server_process].server = "alive"

\* a process of the pair behind the handle h, after terminate / wait / kill
EndedBy(h, role, g) ==
    IF h = g /\ pair[g][role] = "alive" THEN "dead" ELSE pair[g][role]

\* cleanup_processes that leaves current_stage as it is
cleanup_processes_keeping_stage ==
    /\ pair' = [g \in Pairs |->
                  [client |-> EndedBy(client_process, "client", g),
                   server |-> EndedBy(server_process, "server", g)]]
    /\ client_process' = None /\ server_process' = None
    /\ rec_inputs' = <<>>
    /\ current_stage' = current_stage

\* cleanup_processes: end both processes, join the capturers (bounded),
\* clear the handles, and reset inputs and current_stage
cleanup_processes ==
    /\ pair' = [g \in Pairs |->
                  [client |-> EndedBy(client_process, "client", g),
                   server |-> EndedBy(server_process, "server", g)]]
    /\ client_process' = None /\ server_process' = None
    /\ rec_inputs' = <<>>
    /\ current_stage' = 1

\* start_processes: both processes and fresh output lists, or (a missing
\* artifact, a Popen error) self.Close(), whose handler on_close runs
\* cleanup_processes
start_processes ==
    \E ok \in BOOLEAN :
        IF ok /\ starts < MaxStarts
        THEN /\ starts' = starts + 1
             /\ client_process' = starts + 1 /\ server_process' = starts + 1
             /\ outputs' = starts + 1
             /\ pair' = [pair EXCEPT ![starts + 1] =
                            [client |-> "alive", server |-> "alive"]]
             /\ UNCHANGED <<rec_inputs, current_stage, closed>>
        ELSE /\ cleanup_processes
             /\ closed' = TRUE
             /\ UNCHANGED <<starts, outputs>>

Handled(handler, outcome) == [handler |-> handler, outcome |-> outcome]

\* __init__: setup_folders (the record files are truncated under the lock),
\* start_processes, Show
RecorderInit ==
    /\ hpc = "new"
    /\ lock = "free"
    /\ start_processes
    /\ hpc' = "idle"
    /\ last' = Handled("__init__", "done")
    /\ UNCHANGED <<captured, fed, lock, unlocked, record_files, meta_json>>

\* on_submit, up to the sleep: restart the processes if they are not running
Submit1 ==
    /\ hpc = "idle" /\ ~closed
    /\ hpc' = "L186"
    /\ IF RecorderRunning
       THEN UNCHANGED <<starts, client_process, server_process, outputs, pair,
                        rec_inputs, current_stage, closed>>
       ELSE start_processes
    /\ UNCHANGED <<captured, fed, lock, unlocked, record_files, meta_json, last>>

\* on_submit, from GetValue on: an empty value returns; otherwise the value
\* is appended to inputs and written to the client, and the stage advances,
\* or the write fails and cleanup_processes runs
Submit2 ==
    /\ hpc = "L186"
    /\ hpc' = "idle"
    /\ \E value \in Values :
          IF value = ""
          THEN /\ last' = Handled("on_submit", "empty")
               /\ UNCHANGED <<rec_inputs, current_stage, client_process,
                              server_process, pair, fed>>
          ELSE /\ Len(rec_inputs) < MaxSubmits
               /\ IF client_process # None /\ pair[client_process].client = "alive"
                  THEN /\ rec_inputs' = Append(rec_inputs, value)
                       /\ fed' = [fed EXCEPT ![client_process] = Append(@, value)]
                       /\ current_stage' = current_stage + 1
                       /\ last' = Handled("on_submit", "sent")
                       /\ UNCHANGED <<client_process, server_process, pair>>
                  ELSE /\ cleanup_processes
                       /\ last' = Handled("on_submit", "failed")
                       /\ UNCHANGED fed
    /\ UNCHANGED <<starts, outputs, closed, captured, lock, unlocked,
                   record_files, meta_json>>

\* on_end_processes of the recorder
RecorderEnd ==
    /\ hpc = "idle" /\ ~closed
    /\ cleanup_processes
    /\ last' = Handled("on_end_processes", "done")
    /\ UNCHANGED <<hpc, starts, outputs, closed, captured, fed, lock, unlocked,
                   record_files, meta_json>>

\* on_close: the user closes the window
RecorderClose ==
    /\ hpc = "idle" /\ ~closed
    /\ cleanup_processes
    /\ closed' = TRUE
    /\ last' = Handled("on_close", "done")
    /\ UNCHANGED <<hpc, starts, outputs, captured, fed, lock, unlocked,
                   record_files, meta_json>>

\* on_record, up to the with statement: both processes must be running and
\* the dialog must give points; then the lock is taken
Record1 ==
    /\ hpc = "idle" /\ ~closed
    /\ \E points_given \in BOOLEAN :
          IF RecorderRunning /\ points_given
          THEN /\ lock = "free"
               /\ lock' = "gui"
               /\ hpc' = "L226"
               /\ UNCHANGED last
          ELSE /\ last' = Handled("on_record", "refused")
               /\ UNCHANGED <<lock, hpc>>
    /\ UNCHANGED <<starts, client_process, server_process, outputs, pair,
                   rec_inputs, current_stage, closed, captured, fed, unlocked,
                   record_files, meta_json>>

\* the two record files are written from the output lists; the lock is
\* released at the end of the with block
Record2 ==
    /\ hpc = "L226"
    /\ hpc' = "L232"
    /\ record_files' = <<[from |-> outputs,
                          client |-> IF outputs = None THEN 0
                                     ELSE captured[outputs].client,
                          server |-> IF outputs = None THEN 0
                                     ELSE captured[outputs].server]>>
    /\ unlocked' = IF lock = "gui" THEN unlocked ELSE unlocked \cup {"records"}
    /\ lock' = "free"
    /\ UNCHANGED <<starts, client_process, server_process, outputs, pair,
                   rec_inputs, current_stage, closed, captured, fed, meta_json, last>>

\* meta.json is written, after the with block
Record3 ==
    /\ hpc = "L232"
    /\ hpc' = "L243"
    /\ meta_json' = <<[stages |-> Len(rec_inputs), inputs |-> rec_inputs]>>
    /\ unlocked' = IF lock = "gui" THEN unlocked ELSE unlocked \cup {"meta"}
    /\ UNCHANGED <<starts, client_process, server_process, outputs, pair,
                   rec_inputs, current_stage, closed, captured, fed, lock,
                   record_files, last>>

\* the workbook is saved, and self.Close() runs on_close
Record4 ==
    /\ hpc = "L243"
    /\ hpc' = "idle"
    /\ unlocked' = IF lock = "gui" THEN unlocked ELSE unlocked \cup {"workbook"}
    /\ cleanup_processes
    /\ closed' = TRUE
    /\ last' = Handled("on_record", "recorded")
    /\ UNCHANGED <<starts, outputs, captured, fed, lock, record_files, meta_json>>

\* a student process of the recorder exits
RecorderProcExit(role, g) ==
    /\ pair[g][role] = "alive"
    /\ pair' = [pair EXCEPT ![g][role] = "dead"]
    /\ UNCHANGED <<current_stage, rec_inputs, client_process, server_process,
                   outputs, captured, fed, starts, hpc, closed, lock, unlocked,
                   record_files, meta_json, last>>

\* read_output of the recorder: a line of a live process is read and, under
\* the lock, appended to the output list the thread was given
recorder_read_output(role, g) ==
    /\ pair[g][role] = "alive"
    /\ captured[g][role] < MaxOut
    /\ lock = "free"
    /\ captured' = [captured EXCEPT ![g][role] = @ + 1]
    /\ UNCHANGED <<current_stage, rec_inputs, client_process, server_process,
                   outputs, pair, fed, starts, hpc, closed, lock, unlocked,
                   record_files, meta_json, last>>

\* ------------------------------------------------------------------ system
run_tests ==
    \/ L131 \/ L136 \/ L162 \/ L166 \/ L179 \/ L184 \/ L190 \/ L200 \/ L211
    \/ L215 \/ L216 \/ L217 \/ L218 \/ L219 \/ L220 \/ L224
    \/ L235 \/ L237 \/ L238 \/ L240 \/ L242 \/ L243 \/ L245 \/ L246 \/ L248
    \/ L261 \/ NextCase \/ L263
    \/ cleanup_current_processes("runner")

Environment ==
    \E role \in Roles, c \in Cases :
        \/ ProcPrint(role, c)
        \/ ProcExit(role, c)
        \/ read_output(role, c)

\* student programs that print nothing
QuietEnvironment ==
    \E role \in Roles, c \in Cases :
        \/ ProcExit(role, c)
        \/ read_output(role, c)

\* the runner thread with its children and capturers; nobody clicks the button
Next ==
    /\ run_tests \/ Environment
    /\ UNCHANGED <<comparison, recorder>>

\* the runner thread, silent children, and the GUI thread's End All Processes
NextAbort ==
    /\ \/ run_tests
       \/ QuietEnvironment
       \/ on_end_processes
       \/ cleanup_current_processes("gui")
    /\ UNCHANGED <<comparison, recorder>>

\* get_diff on two files, while the harness is idle
InitCompare ==
    /\ Start(AbortConfigs)
    /\ file1 \in Texts(MaxText)
    /\ file2 \in Texts(MaxOther)
    /\ relation = "given"
    /\ returned = <<>>
    /\ reason_chars = 0
    /\ NoRecorder

NextCompare ==
    /\ \/ SameFile
       \/ Renormalized
       \/ CRLFTerminated
       \/ BlankLineAdded
       \/ Compare
       \/ BuildReason
    /\ UNCHANGED recorder

\* the recorder; the harness is another program
InitRecorder ==
    /\ Start(AbortConfigs)
    /\ NoComparison
    /\ NewRecorder
    /\ hpc = "new"

NextRecorder ==
    /\ \/ RecorderInit
       \/ Submit1
       \/ Submit2
       \/ RecorderEnd
       \/ RecorderClose
       \/ Record1
       \/ Record2
       \/ Record3
       \/ Record4
       \/ \E role \in Roles, g \in Pairs :
             \/ RecorderProcExit(role, g)
             \/ recorder_read_output(role, g)
    /\ UNCHANGED <<harness, comparison>>

Spec == Init /\ [][Next]_vars
SpecAbort == InitAbort /\ [][NextAbort]_vars
SpecCompare == InitCompare /\ [][NextCompare]_vars
SpecRecorder == InitRecorder /\ [][NextRecorder]_vars

\* The runner thread and the capturer threads are scheduled: a thread that
\* can take a step takes one. Nothing is assumed of the student programs:
\* they need not print, and need not exit, even when asked to terminate.
\* (The two calls of get_diff are named by their effect on the runner alone:
\* under Next a step is a DiffReturns step exactly when it is L245 or L246,
\* and whether such a step is possible does not depend on the files.)
DiffReturns ==
    /\ rpc \in {"L245", "L246"}
    /\ rpc' = (IF rpc = "L245" THEN "L246" ELSE "L248")
    /\ \E label \in {"Client mismatch", "Server mismatch"} :
          \/ rpc = "L245" /\ client_diff' \in {NoDiff, <<label>>}
                          /\ server_diff' = server_diff
          \/ rpc = "L246" /\ server_diff' \in {NoDiff, <<label>>}
                          /\ client_diff' = client_diff
    /\ UNCHANGED <<config, rret, suiteLocals, inputs, idx, points_value, sent,
                   handles, cpc, gpc, aborts, children, thr, file, tmp,
                   history, comparison, recorder>>

Scheduled ==
    /\ WF_vars(/\ rpc \notin {"L245", "L246"} /\ run_tests
               /\ UNCHANGED <<comparison, recorder>>)
    /\ WF_vars(DiffReturns)
    /\ \A role \in Roles, c \in Cases :
          WF_vars(read_output(role, c) /\ UNCHANGED <<comparison, recorder>>)

\* a suite of well-formed manifests, with threads that are scheduled
InitLive == Start(AbortConfigs) /\ NoComparison /\ NoRecorder
SpecLive == InitLive /\ [][Next]_vars /\ Scheduled

TypeOK ==
    /\ rpc \in {"L131", "L136", "L162", "L166", "L179", "L184", "L190", "L200",
                "L211", "L215", "L216", "L217", "L218", "L219", "L220", "L224",
                "L235", "L237", "L238", "L240", "L242", "L243", "L245", "L246",
                "L248", "L261", "next_case", "L263", "cleanup", "returned",
                "crashed", "done"}
    /\ cur_proc \in [Roles -> Handles]
    /\ cur_thr \in [Roles -> Handles]
    /\ gpc \in {"idle", "cleanup"}
    /\ aborts \in 0..MaxAborts
    /\ (rpc = "cleanup") = (cpc["runner"] # "idle")
    /\ (gpc = "cleanup") = (cpc["gui"] # "idle")


\* ------------------------------------------------------------------ claims
\* the runner thread has ended: normally, by an early return, or by an
\* uncaught exception
RunnerEnded == rpc \in {"done", "returned", "crashed"}

\* the runner is past the iteration of case c
RunnerLeft(c) == RunnerEnded \/ cur > c

RECURSIVE SumSeq(_)
SumSeq(q) == IF q = <<>> THEN 0 ELSE Head(q) + SumSeq(Tail(q))

\* the rows of the saved report
Rows == report[1].rows

\* C1: every suite run that passes the artifact check and discovers at least
\* one case ends with a saved report that holds exactly one row per
\* discovered case, whatever fails inside a case. Stated on the ended runner:
\* it has ended with such a report.
C1_CompleteReport ==
    (RunnerEnded /\ test_cases >= 1) =>
        /\ report # <<>>
        /\ Len(Rows) = test_cases
        /\ \A i \in 1..test_cases : Rows[i].test_case = i

\* C2: the row of a scored case is Passed with the case's points exactly when
\* both diffs are None; every row that is not Passed carries 0 points.
C2_PassedIffNoDiff ==
    /\ rpc = "L261" =>
          LET row == results[Len(results)] IN
          /\ row.test_case = cur
          /\ (row.status = "Passed" /\ row.points = points_value)
                <=> (client_diff = NoDiff /\ server_diff = NoDiff)
          /\ (client_diff # NoDiff \/ server_diff # NoDiff) =>
                (row.status = "Failed" /\ row.points = 0)
    /\ \A i \in 1..Len(results) :
          results[i].status # "Passed" => results[i].points = 0

\* a case worth 10 points has just been scored Passed
C2_Witness ==
    /\ rpc = "L261"
    /\ client_diff = NoDiff /\ server_diff = NoDiff
    /\ points_value = 10
    /\ results[Len(results)].status = "Passed"

\* every discovered case has a Passed row
AllPassed ==
    /\ Len(results) = test_cases
    /\ \A i \in 1..Len(results) : results[i].status = "Passed"

\* the point values of the loaded cases whose row is not Passed
NotPassedWorth ==
    [i \in 1..Len(worth) |->
        IF i <= Len(results) /\ results[i].status = "Passed" THEN 0 ELSE worth[i]]

\* C3 as claimed: at the end of a suite run awarded_points <= total_points,
\* with equality exactly when every case passed. Stated for the runs whose
\* manifests all carry non-negative points, as the data model has them, so
\* that a violation does not rest on a negative point value.
C3_Conservation ==
    (report # <<>> /\ \A i \in 1..Len(worth) : worth[i] >= 0) =>
        /\ report[1].awarded <= report[1].total
        /\ (report[1].awarded = report[1].total) <=> AllPassed

\* C3 as amended: at the end of a suite run, total_points is the sum of the
\* point values of the loaded cases and total_points - awarded_points is the
\* sum of the point values of those that did not pass; if every case passed
\* the two are equal.
C3_Amended ==
    report # <<>> =>
        /\ Len(worth) = Len(Rows)
        /\ report[1].total = SumSeq(worth)
        /\ report[1].total - report[1].awarded = SumSeq(NotPassedWorth)
        /\ AllPassed => report[1].awarded = report[1].total

\* a finished run with a case that passed for points and a case that failed,
\* where awarded equals total all the same (the failed case is worth 0)
C3_Witness ==
    /\ report # <<>>
    /\ report[1].awarded = report[1].total
    /\ report[1].awarded > 0
    /\ \E i \in 1..Len(Rows) : Rows[i].status = "Failed"

\* C4: a case whose start fails (launcher unresolved, spawn error on either
\* process) gets a row with 0 points and the cause, and the loop goes on to
\* the next discovered case.
C4_StartupFailureContinues ==
    \A f \in start_failed :
        (RunnerLeft(f[1]) \/ rpc = "L263") =>
            /\ \E i \in 1..Len(results) :
                  /\ results[i].test_case = f[1]
                  /\ results[i].status = "Failed to start"
                  /\ results[i].points = 0
                  /\ results[i].reason # <<>>
            /\ f[1] < test_cases => cur > f[1]

\* C5: a failed write to the client's stdin is not escalated: the case is
\* scored on what was captured and gets a Failed row with a non-empty reason.
C5_WriteFailureScored ==
    \A c \in write_failed :
        RunnerLeft(c) =>
            \E i \in 1..Len(results) :
                /\ results[i].test_case = c
                /\ results[i].status = "Failed"
                /\ results[i].reason # <<>>

\* C6: once End All Processes, clicked while a case was running, has
\* returned and the runner is past that case, no process launched for the
\* case is alive.
C6_AbortEndsBothProcesses ==
    \A c \in aborted :
        (gpc = "idle" /\ RunnerLeft(c)) =>
            \A role \in Roles : proc[role][c] # "alive"

\* C7: a case during which End All Processes was clicked gets a row that is
\* not Passed and carries no points, and the run still saves a report that
\* holds the rows of all earlier cases.
C7_AbortedCaseReported ==
    \A c \in aborted :
        RunnerEnded =>
            /\ report # <<>>
            /\ Len(Rows) >= c
            /\ \A i \in 1..c : Rows[i].test_case = i
            /\ Rows[c].status # "Passed"
            /\ Rows[c].points = 0

\* C8: at most one server process and one client process are alive at any
\* time, and a live server and a live client belong to the same case.
C8_OnePairAlive ==
    \A c1, c2 \in Cases, r1, r2 \in Roles :
        (proc[r1][c1] = "alive" /\ proc[r2][c2] = "alive") => c1 = c2

\* C9: when the student client or the student server does not exist, the run
\* returns before any case: no process is launched, no case is loaded or
\* scored, no row is recorded and no report is saved.
C9_MissingArtifactAborts ==
    (~args.client_exists \/ ~args.server_exists) =>
        /\ rpc \in {"L131", "returned"}
        /\ \A role \in Roles, c \in Cases : proc[role][c] = "none"
        /\ test_cases = 0 /\ worth = <<>>
        /\ results = <<>> /\ report = <<>>
        /\ awarded_points = 0 /\ total_points = 0

\* the run has returned because the server artifact alone is missing
C9_Witness ==
    /\ args.client_exists /\ ~args.server_exists
    /\ rpc = "returned"

\* C10: a meta.json that does not parse, or is no record, fails only its own
\* case: the runner does not end on it, and goes on to the remaining cases.
C10_BadManifestFailsClosed ==
    \A c \in manifest_failed :
        /\ rpc = "crashed" => cur > c
        /\ (RunnerEnded /\ c < test_cases) => cur > c

\* C11: the point value of every loaded case is a non-negative integer, and
\* a points field that does not parse never ends the run: the runner ends by
\* an exception while loading a case only on a manifest that is no record.
C11_PointsParsed ==
    /\ \A i \in 1..Len(worth) : worth[i] >= 0
    /\ (rpc = "crashed" /\ Len(worth) < cur) => cur \in manifest_failed

\* the normalized line sequences of the two files
lines1 == read_and_normalize(file1)
lines2 == read_and_normalize(file2)

\* C12: normalizing the newline-joined result of a normalization gives the
\* line sequence of the first normalization.
C12_NormalizerIdempotent ==
    relation = "renormalized" => lines2 = lines1

\* C13: a file and the same file with LF terminators written as CRLF
\* normalize to the same line sequence, and get_diff returns None for them.
C13_LineEndingInvariant ==
    relation = "crlf" =>
        /\ lines2 = lines1
        /\ returned # <<>> => returned.fwd = NoDiff

\* two files with a non-blank line that differ in a terminator were compared
C13_Witness ==
    /\ relation = "crlf"
    /\ file1 # file2
    /\ lines1 # <<>>
    /\ returned # <<>> /\ returned.fwd = NoDiff

\* C14: get_diff returns None exactly when the normalized line sequences are
\* equal; it returns None for a file and itself; and it returns None for
\* (A, B) exactly when it does for (B, A).
C14_DiffDetects ==
    returned # <<>> =>
        /\ returned.fwd = NoDiff <=> lines1 = lines2
        /\ relation = "same" => returned.fwd = NoDiff
        /\ returned.fwd = NoDiff <=> returned.rev = NoDiff

\* a mismatch was reported, both ways, for two files of which the second
\* normalizes to the leading lines of the first
C14_Witness ==
    /\ returned # <<>>
    /\ returned.fwd # NoDiff /\ returned.rev # NoDiff
    /\ lines2 # <<>>
    /\ Len(lines2) < Len(lines1)
    /\ SubSeq(lines1, 1, Len(lines2)) = lines2

\* C15: the string get_diff returns, and the reason built from the returned
\* strings, are at most 2000 characters long.
C15_ReportBounded ==
    /\ returned # <<>> => returned.chars <= 2000
    /\ reason_chars <= 2000

\* C16: a file and the same file with extra empty lines compare equal, and
\* no normalized line sequence holds an empty line.
C16_BlankLinesIgnored ==
    /\ relation = "blank" =>
          /\ lines2 = lines1
          /\ returned # <<>> => returned.fwd = NoDiff
    /\ \A i \in 1..Len(lines1) : lines1[i] # <<>>
    /\ \A i \in 1..Len(lines2) : lines2[i] # <<>>

\* a file with two non-blank lines was compared with itself plus blank lines
C16_Witness ==
    /\ relation = "blank"
    /\ Len(lines1) >= 2
    /\ returned # <<>> /\ returned.fwd = NoDiff

\* the capturer of a case was started
Started(role, c) == thr[role][c].st \in {"running", "done"}

\* C17: in every case, and whatever End All Processes does meanwhile, the
\* client is launched only after the server was, a capturer is made and
\* started only after both processes were launched, and an input is written
\* only after both capturers were started.
C17_LifecycleOrder ==
    /\ \A c \in Cases :
          /\ proc.client[c] # "none" => proc.server[c] # "none"
          /\ \A role \in Roles :
                thr[role][c].st # "none" =>
                    \A r \in Roles : proc[r][c] # "none"
    /\ sent # <<>> => \A role \in Roles : Started(role, cur)

\* an input was written in a case during which End All Processes was clicked
C17_Witness ==
    /\ cur \in aborted
    /\ sent # <<>>
    /\ \A role \in Roles : Started(role, cur)

\* C18: the inputs the client receives grow only by the next input of the
\* manifest, one at a time, and never after a write of the case has failed
\* (they are forgotten when the iteration is over).
C18_FeederOrder ==
    [][sent' # sent =>
          \/ sent' = <<>>
          \/ /\ cur \notin write_failed
             /\ Len(sent) < Len(inputs)
             /\ sent' = Append(sent, inputs[Len(sent) + 1])]_vars

\* the first of two inputs was written, the write of the second failed, and
\* the runner has left the feeding loop
C18_Witness ==
    /\ cur \in write_failed
    /\ Len(sent) = 1 /\ Len(inputs) = 2
    /\ sent[1] = inputs[1]
    /\ rpc # "L224"

\* no process of case c is alive
TornDown(c) == \A role \in Roles : proc[role][c] # "alive"

\* C19: with the threads scheduled, and whatever the student programs do
\* (hang, ignore terminate()), the processes of a case are ended by the time
\* the runner leaves the case, and the runner thread ends: it waits for no
\* process and no capturer forever.
C19_BoundedTeardown ==
    /\ [](\A c \in Cases : RunnerLeft(c) => TornDown(c))
    /\ <>[](RunnerEnded /\ \A c \in Cases : TornDown(c))

\* the server of a scored case ignored terminate() after the drain and in
\* the cleanup, the bounded wait has expired, and the runner is at the kill
C19_Witness ==
    /\ rpc = "cleanup" /\ rret = "next_case"
    /\ cpc["runner"] = "c85"
    /\ cur_proc.server = cur
    /\ proc.server[cur] = "alive"
    /\ Len(results) = cur
    /\ results[cur].status \in {"Passed", "Failed"}

\* the capturer threads that were started and have not ended
LiveCapturers ==
    {rc \in Roles \X Cases : thr[rc[1]][rc[2]].st = "running"}

\* C20: at most two capturer threads are alive at any time of a suite run,
\* and they are the two capturers of one case.
C20_TwoCapturers ==
    /\ Cardinality(LiveCapturers) <= 2
    /\ \A a, b \in LiveCapturers : a[2] = b[2]

Scoring == rpc \in {"L246", "L248", "L261"}

\* C23: while the runner is scoring a case, no step of another thread
\* changes a student record file of the case.
C23_TranscriptFinal ==
    [][(Scoring /\ rpc' = rpc) => file' = file]_vars

\* the thread t calls a method on the slot of the given role, which holds None
AtCallOnNone(t) ==
    \/ /\ t = "runner"
       /\ \/ rpc \in {"L217", "L219", "L243"} /\ cur_thr.server = None
          \/ rpc \in {"L218", "L220", "L242"} /\ cur_thr.client = None
          \/ rpc \in {"L235", "L237"} /\ cur_proc.client = None
          \/ rpc \in {"L238", "L240"} /\ cur_proc.server = None
          \/ rpc = "L224" /\ idx <= Len(inputs) /\ cur_proc.client = None
    \/ /\ cpc[t] \in {"c74p", "c75", "c77", "c79"} /\ cur_proc.client = None
    \/ /\ cpc[t] \in {"c80p", "c81", "c83", "c85"} /\ cur_proc.server = None
    \/ /\ cpc[t] = "c87" /\ cur_thr.client = None
    \/ /\ cpc[t] = "c89" /\ cur_thr.server = None

\* the thread t takes a step
Steps(t) ==
    IF t = "runner" THEN rpc' # rpc \/ cpc'["runner"] # cpc["runner"] \/ idx' # idx
                         \/ write_failed' # write_failed
    ELSE cpc'["gui"] # cpc["gui"]

\* C24: no thread executes a method call on a handle slot that the other
\* thread has set to None. (A slot the runner's own cleanup has cleared after
\* a failed write is left aside: that is the runner's doing.)
C24_CleanupConcurrencySafe ==
    [][\A t \in Threads :
          (AtCallOnNone(t) /\ Steps(t)) => (t = "runner" /\ cur \in write_failed)]_vars

\* C22: every write of a record file, of the case manifest and of the
\* workbook is made by a thread that holds _file_write_lock.
C22_WritesUnderLock == unlocked = {}

\* C25: the inputs of the manifest written by on_record are, in order, the
\* inputs that were written to the client of the pair whose output lists
\* were written to the record files.
C25_ManifestMatchesPair ==
    (meta_json # <<>> /\ record_files # <<>>) =>
        /\ record_files[1].from # None
        /\ meta_json[1].inputs = fed[record_files[1].from]

====
